---- MODULE Spec2Model ----
(***************************************************************************)
(* Model of the rule engine of src/code.py: evaluate_condition,            *)
(* rule_matches and run_rules over DEFAULT_RULES and over caller-supplied  *)
(* rule lists.                                                             *)
(*                                                                         *)
(* Python objects are records [t, n, s, l]: t is the type tag, n the       *)
(* number of an int/float, s the text of a str, l the elements of a list.  *)
(* A dict key that is not there is the value Absent.  A call's outcome is  *)
(* a record whose status is "return" or "raise".                           *)
(***************************************************************************)
EXTENDS Integers, Sequences, FiniteSets, TLC

VARIABLES facts, rules, called, arg, out, calls

vars == <<facts, rules, called, arg, out, calls>>

-----------------------------------------------------------------------------
(* Bounds of the model. *)

MaxRules == 3
MaxConds == 2
MaxPriority == 1
MaxCalls == 2

-----------------------------------------------------------------------------
(* Python values. *)

Num(x) == [t |-> "num", n |-> x, s |-> "", l |-> <<>>]
Str(x) == [t |-> "str", n |-> 0, s |-> x, l |-> <<>>]
Lst(x) == [t |-> "list", n |-> 0, s |-> "", l |-> x]
Absent == [t |-> "absent", n |-> 0, s |-> "", l |-> <<>>]

\* The characters of the strings that are compared as values, as code points
\* ("A" is 65, "B" is 66): str ordering and str containment work on them.
Chars(x) ==
  CASE x = "" -> <<>>
    [] x = "A" -> <<65>>
    [] x = "B" -> <<66>>
    [] x = "AB" -> <<65, 66>>
    [] x = "high" -> <<104, 105, 103, 104>>

\* Lexicographic order of two sequences of code points: a < b.
RECURSIVE SeqLess(_, _)
SeqLess(a, b) ==
  IF b = <<>> THEN FALSE
  ELSE IF a = <<>> THEN TRUE
  ELSE IF Head(a) # Head(b) THEN Head(a) < Head(b)
  ELSE SeqLess(Tail(a), Tail(b))

\* a occurs in b as a contiguous run (str.__contains__).
IsSubstring(a, b) ==
  \E k \in 0..Len(b) :
    /\ k + Len(a) <= Len(b)
    /\ \A m \in 1..Len(a) : b[k + m] = a[m]

\* Outcome of a call: a value returned, or an exception raised.
Ret(v) == [status |-> "return", val |-> v]
Raise == [status |-> "raise", val |-> FALSE]

\* a == b of Python: never raises; values of different types are unequal.
PyEq(a, b) == a.t = b.t /\ a = b

\* a < b of Python: numbers by value, strings by code points, anything else
\* against a number or a string is a TypeError.
PyLt(a, b) ==
  IF a.t = "num" /\ b.t = "num" THEN Ret(a.n < b.n)
  ELSE IF a.t = "str" /\ b.t = "str" THEN Ret(SeqLess(Chars(a.s), Chars(b.s)))
  ELSE Raise

\* a <= b of Python.
PyLe(a, b) ==
  IF a.t = "num" /\ b.t = "num" THEN Ret(a.n <= b.n)
  ELSE IF a.t = "str" /\ b.t = "str"
       THEN Ret(a.s = b.s \/ SeqLess(Chars(a.s), Chars(b.s)))
  ELSE Raise

\* a in b of Python: a list holds a when one of its elements equals it, a
\* str holds only strs (as substrings), a number holds nothing (TypeError).
PyIn(a, b) ==
  IF b.t = "list" THEN Ret(\E k \in 1..Len(b.l) : PyEq(a, b.l[k]))
  ELSE IF b.t = "str" /\ a.t = "str" THEN Ret(IsSubstring(Chars(a.s), Chars(b.s)))
  ELSE Raise

Not(r) == IF r.status = "raise" THEN Raise ELSE Ret(~r.val)

OpNames == {"==", "!=", ">", ">=", "<", "<=", "in", "not_in"}

\* OPS[op](a, b), for op in OpNames.
OPS(op, a, b) ==
  CASE op = "==" -> Ret(PyEq(a, b))
    [] op = "!=" -> Ret(~PyEq(a, b))
    [] op = ">" -> PyLt(b, a)
    [] op = ">=" -> PyLe(b, a)
    [] op = "<" -> PyLt(a, b)
    [] op = "<=" -> PyLe(a, b)
    [] op = "in" -> PyIn(a, b)
    [] op = "not_in" -> Not(PyIn(a, b))

\* hash(x): a list is unhashable, so looking it up in a dict raises.
Hashable(x) == x.t # "list"

\* key in d, for a dict d with str keys (a TLA+ function on its keys).
HasKey(d, key) == key.t = "str" /\ key.s \in DOMAIN d

\* evaluate_condition(facts, cond).  cond is a list or a number; len() of a
\* number raises, and so does hashing an unhashable field or operator; both
\* happen before the try block.  What the operator raises is caught.
evaluate_condition(f, cond) ==
  IF cond.t # "list" THEN Raise
  ELSE IF Len(cond.l) # 3 THEN Ret(FALSE)
  ELSE LET field == cond.l[1]
           op == cond.l[2]
           value == cond.l[3]
       IN IF ~Hashable(field) THEN Raise
          ELSE IF ~HasKey(f, field) THEN Ret(FALSE)
          ELSE IF ~Hashable(op) THEN Raise
          ELSE IF ~(op.t = "str" /\ op.s \in OpNames) THEN Ret(FALSE)
          ELSE LET r == OPS(op.s, f[field.s], value)
               IN IF r.status = "raise" THEN Ret(FALSE) ELSE r

-----------------------------------------------------------------------------
(* Rules.  A rule is a dict with the keys name, priority, conditions and   *)
(* action; priority and conditions are Absent when the key is missing, and *)
(* an action that is missing has present = FALSE.                          *)

Action(d, r) == [present |-> TRUE, decision |-> d, reason |-> r]
NoAction == [present |-> FALSE, decision |-> "", reason |-> ""]

Rule(nm, prio, conds, act) ==
  [name |-> nm, priority |-> prio, conditions |-> conds, action |-> act]

\* rule.get("conditions", [])
GetConditions(rule) ==
  IF rule.conditions = Absent THEN Lst(<<>>) ELSE rule.conditions

\* Mutant: any() in place of all().
RECURSIVE AnyCondition(_, _)
AnyCondition(f, conds) ==
  IF conds = <<>> THEN Ret(FALSE)
  ELSE LET r == evaluate_condition(f, Head(conds))
       IN IF r.status = "raise" THEN Raise
          ELSE IF r.val THEN Ret(TRUE)
          ELSE AnyCondition(f, Tail(conds))

\* all(evaluate_condition(facts, c) for c in conds): left to right, stopping
\* at the first false condition; a condition that raises ends the call.
RECURSIVE AllConditions(_, _)
AllConditions(f, conds) ==
  IF conds = <<>> THEN Ret(TRUE)
  ELSE LET r == evaluate_condition(f, Head(conds))
       IN IF r.status = "raise" THEN Raise
          ELSE IF ~r.val THEN Ret(FALSE)
          ELSE AllConditions(f, Tail(conds))

\* rule_matches(facts, rule).  Iterating conditions that are a number raises.
rule_matches(f, rule) ==
  LET conds == GetConditions(rule)
  IN IF conds.t # "list" THEN Raise ELSE AllConditions(f, conds.l)

\* [r for r in rules if rule_matches(facts, r)]: the matching rules in input
\* order, or the exception of the first rule whose matching raises.
RECURSIVE Fired(_, _)
Fired(f, rs) ==
  IF rs = <<>> THEN Ret(<<>>)
  ELSE LET m == rule_matches(f, Head(rs))
       IN IF m.status = "raise" THEN Raise
          ELSE LET rest == Fired(f, Tail(rs))
               IN IF rest.status = "raise" THEN Raise
                  ELSE IF m.val THEN Ret(<<Head(rs)>> \o rest.val)
                  ELSE rest

\* Mutant: the key is looked up under a name no rule has.
PriorityKeyMistyped(rule) == Num(0)

\* key=lambda r: r.get("priority", 0)
PriorityKey(rule) == IF rule.priority = Absent THEN Num(0) ELSE rule.priority

Reverse(s) == [k \in 1..Len(s) |-> s[Len(s) + 1 - k]]

\* One step of the stable ascending sort: x goes behind every element of the
\* sorted run s whose key is not greater than its own (only < is used).
InsertByKey(s, x) ==
  LET before == {k \in 1..Len(s) : ~PyLt(PriorityKey(x), PriorityKey(s[k])).val}
      n == Cardinality(before)
  IN SubSeq(s, 1, n) \o <<x>> \o SubSeq(s, n + 1, Len(s))

RECURSIVE SortAscending(_)
SortAscending(s) ==
  IF s = <<>> THEN <<>>
  ELSE InsertByKey(SortAscending(SubSeq(s, 1, Len(s) - 1)), s[Len(s)])

\* The keys of s can be ordered: no two of them raise when compared.  A sort
\* of two or more items compares an item of each type with one of another.
Comparable(s) ==
  \A i, j \in 1..Len(s) :
    i # j => PyLt(PriorityKey(s[i]), PriorityKey(s[j])).status = "return"

\* Mutant: sorted ascending and then reversed, which turns ties around.
SortedTiesReversed(s) ==
  IF ~Comparable(s) THEN Raise ELSE Ret(Reverse(SortAscending(s)))

\* Mutant: reverse=True left out.
SortedWithoutReverse(s) ==
  IF ~Comparable(s) THEN Raise ELSE Ret(SortAscending(s))

\* sorted(fired, key=..., reverse=True): the list is reversed, sorted
\* ascending by a stable sort and reversed again; rs itself is not touched.
SortedByPriority(s) ==
  IF ~Comparable(s) THEN Raise
  ELSE Ret(Reverse(SortAscending(Reverse(s))))

Fallback == Action("REVIEW", "No rule matched")
DefaultAction == Action("REVIEW", "No action defined")

\* Mutant: a rule without action gets the decision of no match.
GetActionOrFallback(rule) == IF rule.action.present THEN rule.action ELSE Fallback

\* rule.get("action", {...})
GetAction(rule) == IF rule.action.present THEN rule.action ELSE DefaultAction

\* The outcome of run_rules: the pair (best, fired_sorted), or an exception.
RunRet(d, rep) == [status |-> "return", val |-> TRUE, decision |-> d, report |-> rep]
RunRaise == [status |-> "raise", val |-> FALSE, decision |-> NoAction, report |-> <<>>]

\* Mutant: no test for an empty list of fired rules, so fired_sorted[0] raises.
run_rules_unguarded(f, rs) ==
  LET fired == Fired(f, rs)
  IN IF fired.status = "raise" THEN RunRaise
     ELSE LET fired_sorted == SortedByPriority(fired.val)
          IN IF fired_sorted.status = "raise" \/ fired_sorted.val = <<>> THEN RunRaise
             ELSE RunRet(GetAction(fired_sorted.val[1]), fired_sorted.val)

\* run_rules(facts, rules)
run_rules(f, rs) ==
  LET fired == Fired(f, rs)
  IN IF fired.status = "raise" THEN RunRaise
     ELSE IF fired.val = <<>> THEN RunRet(Fallback, <<>>)
     ELSE LET fired_sorted == SortedByPriority(fired.val)
          IN IF fired_sorted.status = "raise" THEN RunRaise
             ELSE RunRet(GetAction(fired_sorted.val[1]), fired_sorted.val)

\* Mutant: rules.sort(...) in place of sorted(...).
RulesSortedInPlace(f, rs) ==
  IF Comparable(rs) THEN Reverse(SortAscending(Reverse(rs))) ELSE rs

\* The caller's rule list once run_rules has ended: in place, with the same
\* rules in the same order (fired and fired_sorted are new lists).
RulesAfterRun(f, rs) == rs

-----------------------------------------------------------------------------
(* DEFAULT_RULES.  cgpa is a float with one decimal: the model holds it in  *)
(* tenths, in the rules and in the facts alike (37 is 3.7).  The dash of    *)
(* the fourth name is written as a hyphen.                                  *)

Cond(field, op, value) == Lst(<<Str(field), Str(op), value>>)

DEFAULT_RULES ==
  << Rule("Top merit candidate", Num(100),
          Lst(<< Cond("cgpa", ">=", Num(37)),
                 Cond("co_curricular_score", ">=", Num(80)),
                 Cond("family_income", "<=", Num(8000)),
                 Cond("disciplinary_actions", "==", Num(0)) >>),
          Action("AWARD_FULL",
                 "Excellent academic & co-curricular performance, with acceptable need")),
     Rule("Good candidate - partial scholarship", Num(80),
          Lst(<< Cond("cgpa", ">=", Num(33)),
                 Cond("co_curricular_score", ">=", Num(60)),
                 Cond("family_income", "<=", Num(12000)),
                 Cond("disciplinary_actions", "<=", Num(1)) >>),
          Action("AWARD_PARTIAL",
                 "Good academic & involvement record with moderate need")),
     Rule("Need-based review", Num(70),
          Lst(<< Cond("cgpa", ">=", Num(25)),
                 Cond("family_income", "<=", Num(4000)) >>),
          Action("REVIEW", "High need but borderline academic score")),
     Rule("Low CGPA - not eligible", Num(95),
          Lst(<< Cond("cgpa", "<", Num(25)) >>),
          Action("REJECT", "CGPA below minimum scholarship requirement")),
     Rule("Serious disciplinary record", Num(90),
          Lst(<< Cond("disciplinary_actions", ">=", Num(2)) >>),
          Action("REJECT", "Too many disciplinary records")) >>

-----------------------------------------------------------------------------
(* The inputs of the calls: the fact sets and rule lists a caller passes.  *)

\* A dict: the entries of d whose value is not Absent.
Dict(d) == [k \in {x \in DOMAIN d : d[x] # Absent} |-> d[k]]

\* Applicant facts as the form builds them (co_curricular_score may be left
\* out, as in the scenario of a low CGPA).
ScholarFacts ==
  { Dict([cgpa |-> Num(c),
          co_curricular_score |-> IF s < 0 THEN Absent ELSE Num(s),
          family_income |-> Num(m),
          disciplinary_actions |-> Num(d)]) :
      c \in {20, 25, 28, 30, 33, 35, 37, 38},
      s \in {-1, 10, 60, 65, 80, 85},
      m \in {3000, 4000, 5000, 8000, 10000, 12000, 15000, 20000},
      d \in {0, 1, 2, 3} }

\* Facts for rules a caller wrote: a number, a string, or neither.
MkFacts(sem, grade) == Dict([semester |-> sem, grade |-> grade])

GenFacts ==
  { MkFacts(sem, grade) :
      sem \in {Absent, Num(2), Num(3)}, grade \in {Absent, Str("A"), Str("B")} }

NumFacts == { MkFacts(sem, Absent) : sem \in {Absent, Num(2), Num(3)} }

\* Conditions of every shape: each field, operator and value, of the expected
\* type or not, and conditions that are no triple.
ProbeFields == {Str("semester"), Str("grade"), Num(1), Lst(<<Str("grade")>>)}
ProbeOps == {Str(o) : o \in OpNames} \cup {Str("=>"), Lst(<<Str("==")>>)}
ProbeValues == {Num(2), Num(3), Str("A"), Str("AB"), Lst(<<Str("A"), Num(3)>>)}

ProbeConds ==
  { Lst(<<f, o, v>>) : f \in ProbeFields, o \in ProbeOps, v \in ProbeValues }
  \cup { Lst(<<>>),
         Lst(<<Str("semester"), Str(">=")>>),
         Lst(<<Str("semester"), Str(">="), Num(2), Num(3)>>),
         Num(5) }

\* Conditions that are combined in one rule.
MatchConds ==
  { Cond("semester", ">=", Num(3)),
    Cond("grade", "in", Lst(<<Str("A"), Num(3)>>)),
    Cond("grade", "!=", Str("B")),
    Lst(<<Str("semester"), Str(">=")>>),
    Num(5) }

RuleName(i) == "R" \o ToString(i)
ActionOf(i) == Action("D" \o ToString(i), "rule " \o ToString(i))

\* Family 1: one rule with one condition of any shape.
ProbeRuleLists ==
  { <<Rule(RuleName(1), Num(1), Lst(<<c>>), ActionOf(1))>> : c \in ProbeConds }

\* Family 2: one rule with up to MaxConds conditions.
MatchRuleLists ==
  { <<Rule(RuleName(1), Num(1), Lst(cs), ActionOf(1))>> :
      cs \in UNION { [1..k -> MatchConds] : k \in 0..MaxConds } }

\* Family 3: up to MaxRules well-formed rules, each with a priority in
\* 0..MaxPriority or none, and with one condition or none.
PriorityRuleLists ==
  { [i \in DOMAIN p |-> Rule(RuleName(i), p[i][1], p[i][2], ActionOf(i))] :
      p \in UNION { [1..k -> ({Absent} \cup {Num(x) : x \in 0..MaxPriority})
                               \X {Absent, Lst(<<Cond("semester", ">=", Num(3))>>)}]
                    : k \in 0..MaxRules } }

\* Family 4: up to two rules whose priority, conditions or action are
\* missing or of another type than expected.
LooseRuleLists ==
  { [i \in DOMAIN p |-> Rule(RuleName(i), p[i][1], p[i][2],
                         IF p[i][3] THEN ActionOf(i) ELSE NoAction)] :
      p \in UNION { [1..k -> {Absent, Num(1), Str("high")}
                               \X {Absent, Num(5), Lst(<<Num(5)>>),
                                   Lst(<<Cond("semester", ">=", Num(3))>>)}
                               \X BOOLEAN]
                    : k \in 0..2 } }

-----------------------------------------------------------------------------
(* The state machine: the caller holds facts and rules and calls the three *)
(* functions; called, arg and out record the last call and its outcome.    *)

Outcome(r) == [status |-> r.status, val |-> r.val, decision |-> NoAction, report |-> <<>>]
NoCall == [status |-> "none", val |-> FALSE, decision |-> NoAction, report |-> <<>>]

Init ==
  /\ \/ facts \in GenFacts /\ rules \in ProbeRuleLists
     \/ facts \in GenFacts /\ rules \in MatchRuleLists
     \/ facts \in NumFacts /\ rules \in PriorityRuleLists
     \/ facts \in NumFacts /\ rules \in LooseRuleLists
     \/ facts \in ScholarFacts /\ rules = DEFAULT_RULES
  /\ called = "none"
  /\ arg = <<0, 0>>
  /\ out = NoCall
  /\ calls = 0

\* The j-th condition of the i-th rule, when its conditions are a list.
HasCond(i, j) ==
  /\ i \in 1..Len(rules)
  /\ rules[i].conditions.t = "list"
  /\ j \in 1..Len(rules[i].conditions.l)

CondAt(i, j) == rules[i].conditions.l[j]

CallEvaluateCondition ==
  \E i \in 1..Len(rules) :
    /\ rules[i].conditions.t = "list"
    /\ \E j \in 1..Len(rules[i].conditions.l) :
         /\ called' = "evaluate_condition"
         /\ arg' = <<i, j>>
         /\ out' = Outcome(evaluate_condition(facts, CondAt(i, j)))
    /\ calls' = 0
    /\ UNCHANGED <<facts, rules>>

CallRuleMatches ==
  \E i \in 1..Len(rules) :
    /\ called' = "rule_matches"
    /\ arg' = <<i, 0>>
    /\ out' = Outcome(rule_matches(facts, rules[i]))
    /\ calls' = 0
    /\ UNCHANGED <<facts, rules>>

CallRunRules ==
  /\ calls < MaxCalls
  /\ called' = "run_rules"
  /\ arg' = <<0, 0>>
  /\ out' = run_rules(facts, rules)
  /\ rules' = RulesAfterRun(facts, rules)
  /\ calls' = calls + 1
  /\ UNCHANGED facts

Next == CallEvaluateCondition \/ CallRuleMatches \/ CallRunRules

Spec == Init /\ [][Next]_vars

-----------------------------------------------------------------------------
(* What the properties speak of, stated on the inputs of the call.         *)

RanRules == called = "run_rules"
Returned == out.status = "return"
ReturnedBool(b) == out = Outcome(Ret(b))

\* The rules of the list that match the facts.
Matched == {i \in 1..Len(rules) : rule_matches(facts, rules[i]) = Ret(TRUE)}

\* The priority of a rule as a number (0 when it has none).
NumPriority(rule) == IF rule.priority.t = "num" THEN rule.priority.n ELSE 0

\* Rule i comes before rule j: higher priority, or the same and listed first.
Precedes(i, j) ==
  \/ NumPriority(rules[i]) > NumPriority(rules[j])
  \/ NumPriority(rules[i]) = NumPriority(rules[j]) /\ i < j

\* The place of a matching rule among the matching rules.
Rank(i) == 1 + Cardinality({j \in Matched : Precedes(j, i)})

\* C1: when run_rules returns and at least one rule matches, the first rule
\* of the report is the matching rule of highest priority, the earliest of
\* the input list among those of that priority, and the decision is its action.
HighestPriorityWins ==
  (RanRules /\ Returned /\ Matched # {}) =>
    \E w \in Matched :
      /\ \A j \in Matched : j # w => Precedes(w, j)
      /\ out.report[1] = rules[w]
      /\ rules[w].action.present => out.decision = rules[w].action

WitnessPriorityTie ==
  /\ RanRules /\ Returned
  /\ Len(rules) = 3
  /\ Matched = {2, 3}
  /\ NumPriority(rules[2]) = NumPriority(rules[3])
  /\ NumPriority(rules[1]) > NumPriority(rules[2])
  /\ out.decision = rules[2].action

\* C2: run_rules never raises, whatever the facts and the rules.
RunRulesNeverRaises == RanRules => Returned

\* C3: when no rule matches (the list may be empty), run_rules returns the
\* fallback decision REVIEW / "No rule matched" and an empty report.
NoMatchGivesFallback ==
  (RanRules /\ \A i \in 1..Len(rules) : rule_matches(facts, rules[i]) = Ret(FALSE)) =>
    /\ Returned
    /\ out.decision = [present |-> TRUE, decision |-> "REVIEW", reason |-> "No rule matched"]
    /\ out.report = <<>>

WitnessNoMatch ==
  /\ RanRules
  /\ Len(rules) = 2
  /\ \A i \in 1..Len(rules) : rule_matches(facts, rules[i]) = Ret(FALSE)
  /\ out.decision.reason = "No rule matched"

\* C4: the report holds exactly the matching rules, each once, by priority
\* from high to low, rules of one priority in the order of the input list.
ReportIsStableSortedMatches ==
  (RanRules /\ Returned) =>
    /\ Len(out.report) = Cardinality(Matched)
    /\ \A i \in Matched : out.report[Rank(i)] = rules[i]
    /\ \A k \in 1..(Len(out.report) - 1) :
         NumPriority(out.report[k]) >= NumPriority(out.report[k + 1])

WitnessReportReordered ==
  /\ RanRules /\ Returned
  /\ Len(out.report) = 3
  /\ out.report = <<rules[2], rules[3], rules[1]>>
  /\ NumPriority(rules[2]) = NumPriority(rules[3])

\* A condition (a list, as the signature has it) that is no triple, or names
\* a field the facts do not have, or an operator that is not one of OPS.
Malformed(c) ==
  \/ Len(c.l) # 3
  \/ ~(c.l[1].t = "str" /\ c.l[1].s \in DOMAIN facts)
  \/ ~(c.l[2].t = "str" /\ c.l[2].s \in {"==", "!=", ">", ">=", "<", "<=", "in", "not_in"})

\* C5: evaluate_condition returns false, and does not raise, for a condition
\* that is no triple, or whose field is not in the facts, or whose operator
\* is not recognised; and a rule with such a condition does not match.
MalformedConditionIsFalse ==
  /\ (called = "evaluate_condition" /\ CondAt(arg[1], arg[2]).t = "list"
        /\ Malformed(CondAt(arg[1], arg[2])))
       => ReturnedBool(FALSE)
  /\ (called = "rule_matches"
        /\ \E j \in 1..Len(rules[arg[1]].conditions.l) :
             CondAt(arg[1], j).t = "list" /\ Malformed(CondAt(arg[1], j)))
       => ~ReturnedBool(TRUE)

\* The operator cannot compare a fact of this type with this value: another
\* type, or a membership test in what is no collection of such facts.
Incompatible(op, a, b) ==
  IF op \in {"in", "not_in"}
  THEN b.t = "num" \/ (b.t = "str" /\ a.t # "str")
  ELSE a.t # b.t

\* C6: for each of the eight operators, a condition that compares a fact
\* with a value of an incompatible type evaluates to false.
IncompatibleTypesAreFalse ==
  (/\ called = "evaluate_condition"
   /\ CondAt(arg[1], arg[2]).t = "list"
   /\ ~Malformed(CondAt(arg[1], arg[2]))
   /\ LET c == CondAt(arg[1], arg[2]).l
      IN Incompatible(c[2].s, facts[c[1].s], c[3]))
  => ReturnedBool(FALSE)

\* C7: a rule (with a list of conditions, or none) matches exactly when each
\* of its conditions evaluates true; with no conditions it matches any facts.
MatchesIffAllConditionsHold ==
  (called = "rule_matches" /\ rules[arg[1]].conditions.t \in {"list", "absent"}) =>
    LET cs == rules[arg[1]].conditions.l
    IN ReturnedBool(TRUE) <=>
         \A j \in 1..Len(cs) : evaluate_condition(facts, cs[j]) = Ret(TRUE)

WitnessEmptyConditions ==
  /\ called = "rule_matches"
  /\ DOMAIN facts = {}
  /\ rules[arg[1]].conditions = Lst(<<>>)
  /\ ReturnedBool(TRUE)

\* The fact k is a number and stands in the given relation to x.
FactGE(k, x) == k \in DOMAIN facts /\ facts[k].t = "num" /\ facts[k].n >= x
FactLE(k, x) == k \in DOMAIN facts /\ facts[k].t = "num" /\ facts[k].n <= x
FactLT(k, x) == k \in DOMAIN facts /\ facts[k].t = "num" /\ facts[k].n < x
FactEQ(k, x) == k \in DOMAIN facts /\ facts[k].t = "num" /\ facts[k].n = x

\* The five default rules, read off the rule table (cgpa in tenths).
TopMerit ==
  /\ FactGE("cgpa", 37) /\ FactGE("co_curricular_score", 80)
  /\ FactLE("family_income", 8000) /\ FactEQ("disciplinary_actions", 0)
LowCgpa == FactLT("cgpa", 25)
SeriousRecord == FactGE("disciplinary_actions", 2)
GoodCandidate ==
  /\ FactGE("cgpa", 33) /\ FactGE("co_curricular_score", 60)
  /\ FactLE("family_income", 12000) /\ FactLE("disciplinary_actions", 1)
NeedBased == FactGE("cgpa", 25) /\ FactLE("family_income", 4000)

ExpectedDefaultDecision ==
  IF TopMerit
  THEN [present |-> TRUE, decision |-> "AWARD_FULL",
        reason |-> "Excellent academic & co-curricular performance, with acceptable need"]
  ELSE IF LowCgpa
  THEN [present |-> TRUE, decision |-> "REJECT",
        reason |-> "CGPA below minimum scholarship requirement"]
  ELSE IF SeriousRecord
  THEN [present |-> TRUE, decision |-> "REJECT", reason |-> "Too many disciplinary records"]
  ELSE IF GoodCandidate
  THEN [present |-> TRUE, decision |-> "AWARD_PARTIAL",
        reason |-> "Good academic & involvement record with moderate need"]
  ELSE IF NeedBased
  THEN [present |-> TRUE, decision |-> "REVIEW",
        reason |-> "High need but borderline academic score"]
  ELSE [present |-> TRUE, decision |-> "REVIEW", reason |-> "No rule matched"]

ScenarioA ==
  [cgpa |-> Num(38), co_curricular_score |-> Num(85),
   family_income |-> Num(5000), disciplinary_actions |-> Num(0)]
ScenarioB ==
  [cgpa |-> Num(20), family_income |-> Num(3000), disciplinary_actions |-> Num(0)]
ScenarioC ==
  [cgpa |-> Num(35), co_curricular_score |-> Num(65),
   family_income |-> Num(10000), disciplinary_actions |-> Num(1)]
ScenarioD ==
  [cgpa |-> Num(30), co_curricular_score |-> Num(10),
   family_income |-> Num(20000), disciplinary_actions |-> Num(3)]
ScenarioE ==
  [cgpa |-> Num(28), co_curricular_score |-> Num(10),
   family_income |-> Num(15000), disciplinary_actions |-> Num(0)]

\* C8: on DEFAULT_RULES and numeric facts, run_rules returns the action of
\* the first rule that holds in the order Top merit, Low CGPA, Serious
\* disciplinary record, Good candidate, Need-based review, else the
\* fallback; scenarios A to E give AWARD_FULL, REJECT (CGPA), AWARD_PARTIAL,
\* REJECT (disciplinary) and the fallback with an empty report.
DefaultRulesDecision ==
  (RanRules /\ rules = DEFAULT_RULES) =>
    /\ Returned
    /\ out.decision = ExpectedDefaultDecision
    /\ facts = ScenarioA => out.decision.decision = "AWARD_FULL"
    /\ facts = ScenarioB =>
         /\ out.decision.decision = "REJECT"
         /\ out.decision.reason = "CGPA below minimum scholarship requirement"
    /\ facts = ScenarioC => out.decision.decision = "AWARD_PARTIAL"
    /\ facts = ScenarioD =>
         /\ out.decision.decision = "REJECT"
         /\ out.decision.reason = "Too many disciplinary records"
    /\ facts = ScenarioE =>
         /\ out.decision = [present |-> TRUE, decision |-> "REVIEW", reason |-> "No rule matched"]
         /\ out.report = <<>>

WitnessScenarioA ==
  /\ RanRules /\ rules = DEFAULT_RULES
  /\ facts = ScenarioA
  /\ Len(out.report) = 2
  /\ out.decision.decision = "AWARD_FULL"

MissingActionGivesDefault ==
  (RanRules /\ Returned /\ out.report # <<>>) =>
    /\ Len(out.report) = Cardinality(Matched)
    /\ out.decision =
         IF out.report[1].action.present
         THEN out.report[1].action
         ELSE [present |-> TRUE, decision |-> "REVIEW", reason |-> "No action defined"]

WitnessWinnerWithoutAction ==
  /\ RanRules /\ Returned
  /\ Len(out.report) = 2
  /\ ~out.report[1].action.present
  /\ out.report[2].action.present
  /\ out.decision.reason = "No action defined"

====
